---- MODULE Spec2Model ----
(***************************************************************************)
(* Model of modules/lambda_upload/functions/image_upload/handler.py:       *)
(* the image upload Lambda (ImageUploadHandler.handle_upload) with its     *)
(* three collaborators (RDS Data API, S3, EventBridge) and the date helper *)
(* convert_to_postgres_date.                                               *)
(*                                                                         *)
(* Strings whose content the code inspects (capture dates, base64 text)    *)
(* are sequences of one-character strings.  Python's None is modelled per  *)
(* field: an optional text is the record Absent, an absent identifier is   *)
(* the number None (the store's identifiers are positive).                 *)
(***************************************************************************)
EXTENDS Integers, Sequences, FiniteSets, TLC

\* ------------------------------------------------------------------ bounds
MaxPayloadLen == 3        \* longest base64 text drawn for image_data_encoded
MaxId == 2                \* identifiers the metadata store may generate: 1..MaxId
NumInvocations == 2       \* invocations that may share the module-level handler

Invocations == 1..NumInvocations

\* ------------------------------------------------------- optional values
Absent == [has |-> FALSE, val |-> <<>>]
Some(v) == [has |-> TRUE, val |-> v]
None == 0

\* ------------------------------------------------------ character helpers
DIGITS == <<"0", "1", "2", "3", "4", "5", "6", "7", "8", "9">>

IsDigit(c) == \E k \in 1..10 : DIGITS[k] = c

DigitVal(c) == (CHOOSE k \in 1..10 : DIGITS[k] = c) - 1

AllDigits(s) == \A k \in 1..Len(s) : IsDigit(s[k])

RECURSIVE IntOf(_)
IntOf(s) == IF s = <<>> THEN 0
            ELSE 10 * IntOf(SubSeq(s, 1, Len(s) - 1)) + DigitVal(s[Len(s)])

RECURSIVE SplitOn(_, _)
\* str.split(c): the pieces of s between the occurrences of c
SplitOn(s, c) ==
    IF \A k \in 1..Len(s) : s[k] # c THEN <<s>>
    ELSE LET p == CHOOSE k \in 1..Len(s) : s[k] = c /\ \A j \in 1..(k - 1) : s[j] # c
         IN <<SubSeq(s, 1, p - 1)>> \o SplitOn(SubSeq(s, p + 1, Len(s)), c)

\* ---------------------------------------------- datetime.strptime directives
\* Each directive is the regular expression _strptime.TimeRE gives it; the
\* literal separators of a format are not digits, so a directive matches
\* exactly the text between two separators.
Match_Y(s) == Len(s) = 4 /\ AllDigits(s)                       \* \d\d\d\d

Match_y(s) == Len(s) = 2 /\ AllDigits(s)                       \* \d\d

Match_m(s) ==                                                  \* 1[0-2]|0[1-9]|[1-9]
    /\ Len(s) \in {1, 2}
    /\ AllDigits(s)
    /\ IntOf(s) \in 1..12

Match_d(s) ==                                  \* 3[0-1]|[1-2]\d|0[1-9]|[1-9]| [1-9]
    \/ Len(s) \in {1, 2} /\ AllDigits(s) /\ IntOf(s) \in 1..31
    \/ Len(s) = 2 /\ s[1] = " " /\ IsDigit(s[2]) /\ DigitVal(s[2]) \in 1..9

Match_H(s) == Len(s) \in {1, 2} /\ AllDigits(s) /\ IntOf(s) \in 0..23  \* 2[0-3]|[0-1]\d|\d

Match_M(s) == Len(s) \in {1, 2} /\ AllDigits(s) /\ IntOf(s) \in 0..59  \* [0-5]\d|\d

Match_S(s) == Len(s) \in {1, 2} /\ AllDigits(s) /\ IntOf(s) \in 0..61  \* 6[0-1]|[0-5]\d|\d

Match_f(s) == Len(s) \in 1..6 /\ AllDigits(s)                          \* [0-9]{1,6}

DayOf(s) == IF s[1] = " " THEN DigitVal(s[2]) ELSE IntOf(s)

\* %y: values 69-99 are 1969-1999, values 0-68 are 2000-2068
CenturyOf(yy) == IF yy >= 69 THEN 1900 + yy ELSE 2000 + yy

IsLeap(y) == (y % 4 = 0 /\ y % 100 # 0) \/ y % 400 = 0

DaysInMonth(y, m) ==
    IF m = 2 THEN (IF IsLeap(y) THEN 29 ELSE 28)
    ELSE IF m \in {4, 6, 9, 11} THEN 30 ELSE 31

\* datetime(year, month, day) raises ValueError outside these ranges
ValidDate(y, m, d) == y \in 1..9999 /\ m \in 1..12 /\ d \in 1..DaysInMonth(y, m)

ParseFail == [ok |-> FALSE, Y |-> 0, m |-> 0, d |-> 0]

Parsed(y, m, d) == IF ValidDate(y, m, d) THEN [ok |-> TRUE, Y |-> y, m |-> m, d |-> d]
                   ELSE ParseFail

\* the text after %y in "%m/%d/%y %H:%M:%S.%f": \s+ then H:M:S.f, all consumed
MatchTime(t) ==
    /\ Len(t) >= 1
    /\ t[1] = " "
    /\ LET first == CHOOSE k \in 1..(Len(t) + 1) :
                        /\ k = Len(t) + 1 \/ t[k] # " "
                        /\ \A j \in 1..(k - 1) : t[j] = " "
           hms == SplitOn(SubSeq(t, first, Len(t)), ":")
       IN /\ Len(hms) = 3
          /\ Match_H(hms[1])
          /\ Match_M(hms[2])
          /\ LET sf == SplitOn(hms[3], ".")
             IN /\ Len(sf) = 2
                /\ Match_S(sf[1])
                /\ IntOf(sf[1]) \in 0..59     \* datetime(): second must be in 0..59
                /\ Match_f(sf[2])

\* The formats of input_formats, by their position in the list
input_formats == <<"%Y-%m-%d", "%m/%d/%y", "%m-%d-%y", "%m/%d/%y %H:%M:%S.%f">>

\* datetime.strptime(date_str, fmt): the parsed date, or ParseFail for ValueError
Strptime(s, fmt) ==
    IF fmt = "%Y-%m-%d" THEN
        LET p == SplitOn(s, "-")
        IN IF Len(p) = 3 /\ Match_Y(p[1]) /\ Match_m(p[2]) /\ Match_d(p[3])
           THEN Parsed(IntOf(p[1]), IntOf(p[2]), DayOf(p[3]))
           ELSE ParseFail
    ELSE IF fmt = "%m/%d/%y" THEN
        LET p == SplitOn(s, "/")
        IN IF Len(p) = 3 /\ Match_m(p[1]) /\ Match_d(p[2]) /\ Match_y(p[3])
           THEN Parsed(CenturyOf(IntOf(p[3])), IntOf(p[1]), DayOf(p[2]))
           ELSE ParseFail
    ELSE IF fmt = "%m-%d-%y" THEN
        LET p == SplitOn(s, "-")
        IN IF Len(p) = 3 /\ Match_m(p[1]) /\ Match_d(p[2]) /\ Match_y(p[3])
           THEN Parsed(CenturyOf(IntOf(p[3])), IntOf(p[1]), DayOf(p[2]))
           ELSE ParseFail
    ELSE
        LET p == SplitOn(s, "/")
        IN IF /\ Len(p) = 3
              /\ Match_m(p[1])
              /\ Match_d(p[2])
              /\ Len(p[3]) > 2
              /\ Match_y(SubSeq(p[3], 1, 2))
              /\ MatchTime(SubSeq(p[3], 3, Len(p[3])))
           THEN Parsed(CenturyOf(IntOf(SubSeq(p[3], 1, 2))), IntOf(p[1]), DayOf(p[2]))
           ELSE ParseFail

\* the decimal digits of n, zero-padded to at least w characters
RECURSIVE DigitsOf(_, _)
DigitsOf(n, w) ==
    IF n < 10 /\ w <= 1 THEN <<DIGITS[n + 1]>>
    ELSE DigitsOf(n \div 10, w - 1) \o <<DIGITS[(n % 10) + 1]>>

\* parsed_date.strftime('%Y-%m-%d').  The C library formats %Y: glibc writes a
\* year below 1000 without leading zeros, other platforms pad it to four
\* digits; pad4 is the platform's choice.
Strftime(dt, pad4) ==
    DigitsOf(dt.Y, IF pad4 THEN 4 ELSE 1) \o <<"-">> \o DigitsOf(dt.m, 2)
        \o <<"-">> \o DigitsOf(dt.d, 2)

RaisedValueError == [raised |-> TRUE, val |-> <<>>]

Returned(v) == [raised |-> FALSE, val |-> v]

RECURSIVE TryFormats(_, _, _, _)
TryFormats(date_str, fmts, k, pad4) ==
    IF k > Len(fmts) THEN RaisedValueError          \* raise ValueError("Unknown date format")
    ELSE LET parsed_date == Strptime(date_str, fmts[k])
         IN IF parsed_date.ok THEN Returned(Strftime(parsed_date, pad4))
            ELSE TryFormats(date_str, fmts, k + 1, pad4)

\* a variant that hands the text back when no format parses, instead of raising
convert_to_postgres_date_lenient(date_str, pad4) ==
    LET r == TryFormats(date_str, input_formats, 1, pad4)
    IN IF r.raised THEN Returned(date_str) ELSE r

convert_to_postgres_date(date_str, pad4) == TryFormats(date_str, input_formats, 1, pad4)

\* the formats that fail before date_str is converted (one logger.error each)
FailedFormats(date_str) ==
    Cardinality({k \in 1..Len(input_formats) :
                    \A j \in 1..k : ~Strptime(date_str, input_formats[j]).ok})

\* --------------------------------------------------------- base64.b64decode
\* A base64 text is a sequence over three character classes: "A" a character
\* of the base64 alphabet, "=" the pad character, "!" any other character.
B64_CHARS == {"A", "=", "!"}

RaisedError == [raised |-> TRUE, val |-> 0]

RECURSIVE a2b_base64(_, _, _, _, _)
\* binascii.a2b_base64 in its default non-strict mode; the value returned is
\* the number of bytes decoded
a2b_base64(s, k, quad_pos, pads, nbytes) ==
    IF k > Len(s) THEN
        (IF quad_pos # 0 THEN RaisedError           \* binascii.Error: incorrect padding
         ELSE [raised |-> FALSE, val |-> nbytes])
    ELSE IF s[k] = "=" THEN
        (IF quad_pos >= 2 /\ quad_pos + pads + 1 >= 4
         THEN [raised |-> FALSE, val |-> nbytes]    \* a pad sequence ends the input
         ELSE a2b_base64(s, k + 1, quad_pos, IF quad_pos >= 2 THEN pads + 1 ELSE pads, nbytes))
    ELSE IF s[k] # "A" THEN
        a2b_base64(s, k + 1, quad_pos, pads, nbytes)    \* skipped
    ELSE
        a2b_base64(s, k + 1, (quad_pos + 1) % 4, 0,
                   IF quad_pos = 0 THEN nbytes ELSE nbytes + 1)

\* base64.b64decode(body.get("image_data_encoded")): None is a TypeError
b64decode(data) ==
    IF ~data.has THEN RaisedError
    ELSE a2b_base64(data.val, 1, 0, 0, 0)

\* ----------------------------------------------------------- Python values
\* The values put into an event detail carry their Python type, which is what
\* json.dumps dispatches on.
PyInt(n) == <<"int", n>>
PyStrV(t) == <<"str", t>>
PyNone == <<"NoneType", 0>>
PyModule(name) == <<"module", name>>

PyOptInt(n) == IF n = None THEN PyNone ELSE PyInt(n)

\* str(x) of an identifier or None, as an f-string interpolates it
PyStr(n) == IF n = None THEN "None" ELSE ToString(n)

\* json.dumps(d) raises TypeError unless every value is of a JSON type
JsonSerializable(d) == \A k \in DOMAIN d : d[k][1] \in {"int", "str", "NoneType"}

\* --------------------------------------------------------------- the inputs
RECURSIVE SeqsUpTo(_, _)
SeqsUpTo(S, n) ==
    IF n = 0 THEN {<<>>}
    ELSE LET shorter == SeqsUpTo(S, n - 1)
         IN shorter \cup {Append(t, c) : t \in {u \in shorter : Len(u) = n - 1}, c \in S}

PAYLOADS == {Absent} \cup {Some(t) : t \in SeqsUpTo(B64_CHARS, MaxPayloadLen)}

\* capture dates drawn for a request
REQUEST_DATES ==
    { Absent,
      Some(<<"2","0","2","4","-","0","1","-","1","5">>),
      Some(<<"0","1","/","1","5","/","2","4">>),
      Some(<<"0","1","-","1","5","-","2","4">>),
      Some(<<"0","9","9","9","-","0","1","-","1","5">>),
      Some(<<"g","a","r","b","a","g","e">>),
      Some(<<"2","0","2","4","/","0","1","/","1","5">>),
      Some(<<>>) }

COMPANY_IDS == {7, 8}
BUCKETS == {"bucket-a"}
MODEL_LISTS == {<<>>, <<"lambda-model1">>}
TIMESTAMPS == {"1700000000"}
REQUEST_IDS == {"uuid-a", "uuid-b"}

NoBody == [models |-> <<>>, bucket_name |-> "", user_id |-> 0, company_id |-> 0,
           date_taken |-> Absent, image_data_encoded |-> Absent]

BODIES == [models : MODEL_LISTS, bucket_name : BUCKETS, user_id : {1},
           company_id : COMPANY_IDS, date_taken : REQUEST_DATES,
           image_data_encoded : PAYLOADS]

\* kind: "not_a_dict" the event is not a mapping (None); "no_body" it has no
\* 'body' key; "body_str" its body is text, not a mapping; "body_dict" its
\* body is a mapping
EVENTS == { [kind |-> k, body |-> NoBody] : k \in {"not_a_dict", "no_body", "body_str"} }
          \cup { [kind |-> "body_dict", body |-> b] : b \in BODIES }

NoEvent == [kind |-> "no_body", body |-> NoBody]

\* ------------------------------------------------------------------- state
VARIABLES
    pc,         \* per invocation: where handle_upload stands
    event,      \* per invocation: the event it was called with
    frame,      \* per invocation: the local variables of handle_upload
    response,   \* per invocation: the response returned
    outcome,    \* per invocation: "pending", "returned" or "raised"
    handler,    \* the module-level ImageUploadHandler instance
    photos,     \* the rows of the photos table
    objects,    \* the objects in S3
    bus,        \* the batches EventBridge accepted
    calls,      \* every call made to a collaborator, in order, with its reply
    logs,       \* the logger.error lines, in order
    date_in,    \* the argument of a direct call of convert_to_postgres_date
    date_out    \* what that call produced

vars == <<pc, event, frame, response, outcome, handler, photos, objects, bus,
          calls, logs, date_in, date_out>>

EmptyFrame == [file_content |-> 0, timestamp |-> "", request_id |-> "",
               photo_id |-> None, file_path |-> <<>>, s3_url |-> <<>>,
               events_sent |-> FALSE, common_detail |-> [unset |-> TRUE]]

NoResponse == [statusCode |-> 0, headers |-> [pending |-> TRUE], body |-> [pending |-> TRUE]]

NotCalled == [raised |-> FALSE, val |-> <<"not called">>]

\* ImageUploadHandler.__init__
NewHandler == [s3_client |-> "s3", eventbridge_client |-> "events",
               rds_client |-> "rds-data", region |-> "us-east-1"]

HandlerInit(active, evs) ==
    /\ pc = [i \in Invocations |-> IF i \in active THEN "start" ELSE "idle"]
    /\ event = evs
    /\ frame = [i \in Invocations |-> EmptyFrame]
    /\ response = [i \in Invocations |-> NoResponse]
    /\ outcome = [i \in Invocations |-> "pending"]
    /\ handler = NewHandler
    /\ photos = {}
    /\ objects = {}
    /\ bus = <<>>
    /\ calls = <<>>
    /\ logs = <<>>

\* one invocation of the Lambda, with any event
Init ==
    /\ \E ev \in EVENTS : HandlerInit({1}, [i \in Invocations |-> IF i = 1 THEN ev ELSE NoEvent])
    /\ date_in = <<>>
    /\ date_out = NotCalled

\* --------------------------------------------------------------- responses
create_response(status_code, body) ==
    [statusCode |-> status_code,
     headers |-> [ContentType |-> "application/json", AccessControlAllowOrigin |-> "*"],
     body |-> body]

Log(i, msg) == [inv |-> i, msg |-> msg]

\* a variant that tries the put again when the upload step fails
Return_retry_upload(i, resp) ==
    IF pc[i] = "upload" THEN UNCHANGED <<response, outcome, pc>>
    ELSE /\ response' = [response EXCEPT ![i] = resp]
         /\ outcome' = [outcome EXCEPT ![i] = "returned"]
         /\ pc' = [pc EXCEPT ![i] = "done"]

\* handle_upload returns resp
Return(i, resp) ==
    /\ response' = [response EXCEPT ![i] = resp]
    /\ outcome' = [outcome EXCEPT ![i] = "returned"]
    /\ pc' = [pc EXCEPT ![i] = "done"]

\* a variant without the except clause: the exception leaves handle_upload
Unexpected_reraise(i, logged) ==
    /\ logs' = logs \o logged
    /\ outcome' = [outcome EXCEPT ![i] = "raised"]
    /\ pc' = [pc EXCEPT ![i] = "done"]
    /\ UNCHANGED response

\* the except clause of handle_upload: any Exception raised in its body, after
\* the lines in logged were written
Unexpected(i, logged) ==
    /\ logs' = logs \o logged \o <<Log(i, "Unexpected error")>>
    /\ Return(i, create_response(500, [error |-> <<"Internal server error">>]))

CallsOf(i, svc) == {k \in 1..Len(calls) : calls[k].inv = i /\ calls[k].svc = svc}

\* a variant that issues the object put before the metadata insert
StepAfter_upload_first(step) ==
    IF step = "start" THEN "upload"
    ELSE IF step = "upload" THEN "insert"
    ELSE IF step = "insert" THEN "publish"
    ELSE "respond"

\* a variant that goes back to the put after the put
StepAfter_put_again(step) ==
    IF step = "start" THEN "insert"
    ELSE IF step = "insert" THEN "upload"
    ELSE IF step = "upload" THEN "upload"
    ELSE "respond"

\* the order of the statements of handle_upload: the step that follows a step
\* that did not return
StepAfter(step) ==
    IF step = "start" THEN "insert"
    ELSE IF step = "insert" THEN "upload"
    ELSE IF step = "upload" THEN "publish"
    ELSE "respond"

\* a variant that keeps the locals on the shared handler instance: every
\* invocation reads what the first invocation wrote
LocalsOf_shared(i) == frame[1]

\* the local variables invocation i reads: those of its own call frame
LocalsOf(i) == frame[i]

\* ------------------------------------------------ handle_upload, step by step
\* a variant that skips the presence check
BodyInEvent_always(ev) == TRUE

\* 'body' in event
BodyInEvent(ev) == ev.kind # "no_body"

\* a variant that lets the decoding error reach the except clause of handle_upload
InvalidFileContent_uncaught == create_response(500, [error |-> <<"Internal server error">>])

\* line 219: the response when b64decode raised
InvalidFileContent == create_response(400, [error |-> <<"Invalid file content">>])

\* lines 185-223: validate the event, read the body, decode the image, draw
\* the timestamp and the request id
DecodeRequest(i) ==
    /\ pc[i] = "start"
    /\ UNCHANGED <<event, handler, photos, objects, bus, calls, date_in, date_out>>
    /\ LET ev == event[i]
       IN IF ev.kind = "not_a_dict" THEN
              \* 'body' not in event raises TypeError
              Unexpected(i, <<>>) /\ UNCHANGED frame
          ELSE IF ~BodyInEvent(ev) THEN
              /\ Return(i, create_response(400, [error |-> <<"No file content found">>]))
              /\ UNCHANGED <<frame, logs>>
          ELSE IF ev.kind = "no_body" THEN
              \* event['body'] raises KeyError
              Unexpected(i, <<>>) /\ UNCHANGED frame
          ELSE IF ev.kind = "body_str" THEN
              \* body.get raises AttributeError
              Unexpected(i, <<>>) /\ UNCHANGED frame
          ELSE LET file_content == b64decode(ev.body.image_data_encoded)
               IN IF file_content.raised THEN
                      /\ Return(i, InvalidFileContent)
                      /\ UNCHANGED <<frame, logs>>
                  ELSE \E timestamp \in TIMESTAMPS, request_id \in REQUEST_IDS :
                      /\ frame' = [frame EXCEPT ![i] =
                                      [@ EXCEPT !.file_content = file_content.val,
                                                !.timestamp = timestamp,
                                                !.request_id = request_id]]
                      /\ pc' = [pc EXCEPT ![i] = StepAfter("start")]
                      /\ UNCHANGED <<response, outcome, logs>>

\* what the Data API may answer to the INSERT ... RETURNING id: a row with a
\* fresh identifier, no row, or an error
RdsReplies ==
    {[kind |-> "rows", id |-> n] : n \in (1..MaxId) \ {r.id : r \in photos}}
        \cup {[kind |-> "zero", id |-> None], [kind |-> "raise", id |-> None]}

\* f"uploads/{photo_id}"
FilePath(photo_id) == <<"uploads/", PyStr(photo_id)>>

\* lines 225-246: insert_photo_to_database and the storage key derived from
\* the identifier it returns
insert_photo_to_database(i) ==
    /\ pc[i] = "insert"
    /\ UNCHANGED <<event, handler, objects, bus, date_in, date_out>>
    /\ LET body == event[i].body
           date_taken == body.date_taken
       IN \E pad4 \in BOOLEAN :
          LET conv == IF date_taken.has
                      THEN convert_to_postgres_date(date_taken.val, pad4)
                      ELSE Returned(<<>>)
              date_taken_converted == IF date_taken.has THEN Some(conv.val) ELSE Absent
              logged == IF date_taken.has
                        THEN [k \in 1..FailedFormats(date_taken.val) |->
                                 Log(i, "Error converting date")]
                        ELSE <<>>
          IN IF conv.raised THEN
                 \* ValueError("Unknown date format") leaves insert_photo_to_database
                 Unexpected(i, logged) /\ UNCHANGED <<frame, photos, calls>>
             ELSE \E reply \in RdsReplies :
                 /\ calls' = Append(calls,
                        [inv |-> i, svc |-> "rds",
                         req |-> [user_id |-> body.user_id, company_id |-> body.company_id,
                                  date_taken |-> date_taken_converted],
                         reply |-> reply])
                 /\ IF reply.kind = "raise" THEN
                        Unexpected(i, logged) /\ UNCHANGED <<frame, photos>>
                    ELSE
                        /\ photos' = IF reply.kind = "rows"
                                     THEN photos \cup {[id |-> reply.id, user_id |-> body.user_id,
                                                        company_id |-> body.company_id,
                                                        date_taken |-> date_taken_converted]}
                                     ELSE photos
                        \* no row: the error is logged and None is returned
                        /\ logs' = logs \o logged \o
                                   (IF reply.kind = "zero"
                                    THEN <<Log(i, "Error generating record for photo")>>
                                    ELSE <<>>)
                        /\ frame' = [frame EXCEPT ![i] =
                                        [@ EXCEPT !.photo_id = reply.id,
                                                  !.file_path = FilePath(reply.id)]]
                        /\ pc' = [pc EXCEPT ![i] = StepAfter("insert")]
                        /\ UNCHANGED <<response, outcome>>

S3_REPLIES == {"ok", "ClientError", "OtherError"}

\* a variant whose message leaves the identifier out
UploadFailedBody_generic(photo_id) == [error |-> <<"Failed to upload file">>]

\* the body of the response when upload_to_s3 returned False
UploadFailedBody(photo_id) == [error |-> <<"Failed to upload file for photo ", PyStr(photo_id)>>]

\* lines 248-253: upload_to_s3.  put_object succeeds, raises ClientError
\* (caught: False is returned) or raises another exception (not caught there)
upload_to_s3(i) ==
    /\ pc[i] = "upload"
    /\ UNCHANGED <<event, handler, photos, bus, date_in, date_out>>
    /\ LET bucket_name == event[i].body.bucket_name
           f == LocalsOf(i)
       IN \E reply \in S3_REPLIES :
          /\ calls' = Append(calls,
                 [inv |-> i, svc |-> "s3",
                  req |-> [Bucket |-> bucket_name, Key |-> f.file_path,
                           Body |-> f.file_content, ContentType |-> "image/jpeg"],
                  reply |-> reply])
          /\ IF reply = "ok" THEN
                 /\ objects' = objects \cup {[Bucket |-> bucket_name, Key |-> f.file_path,
                                              Body |-> f.file_content]}
                 /\ frame' = [frame EXCEPT ![i] =
                                 [@ EXCEPT !.s3_url = <<"https://", bucket_name, ".s3.",
                                                        handler.region, ".amazonaws.com/">>
                                                      \o f.file_path]]
                 /\ pc' = [pc EXCEPT ![i] = StepAfter("upload")]
                 /\ UNCHANGED <<response, outcome, logs>>
             ELSE IF reply = "ClientError" THEN
                 /\ logs' = Append(logs, Log(i, "Error uploading to S3"))
                 /\ Return(i, create_response(500, UploadFailedBody(f.photo_id)))
                 /\ UNCHANGED <<objects, frame>>
             ELSE
                 Unexpected(i, <<>>) /\ UNCHANGED <<objects, frame>>

MODEL_TYPES == <<"lambda", "eks">>

\* str.title() of a model type
Title(model_type) == IF model_type = "lambda" THEN "Lambda" ELSE "Eks"

\* lines 135-143: common_detail.  request_id is never read: the detail's
\* 'request_id' is the uuid module itself.
CommonDetail(request_id, bucket, key, company_id, photo_id, timestamp) ==
    [request_id |-> PyModule("uuid"),
     bucket |-> PyStrV(bucket),
     key |-> PyStrV(key),
     company_id |-> PyInt(company_id),
     photo_id |-> PyOptInt(photo_id),
     timestamp |-> PyStrV(timestamp),
     version |-> PyStrV("1.0")]

\* lines 134-173 of send_events_to_eventbridge: the main upload event and one
\* event per model of the fixed list.  Detail is the mapping json.dumps is
\* given.  request_id is never read: the detail's 'request_id' is the uuid
\* module itself.
BuildEvents(request_id, bucket, key, company_id, photo_id, photo_s3_url, models, timestamp) ==
    LET cd == CommonDetail(request_id, bucket, key, company_id, photo_id, timestamp)
        \* {**common_detail, 'processingType': processingType}
        common_detail(processingType) ==
            [k \in DOMAIN cd \cup {"processingType"} |->
                IF k = "processingType" THEN PyStrV(processingType) ELSE cd[k]]
        main_event == [Source |-> "custom.imageUpload",
                       DetailType |-> <<"ImageUploaded">>,
                       Detail |-> common_detail(<<"upload">>),
                       EventBusName |-> "default"]
        model_event(model_type, model_num) ==
            [Source |-> "custom.imageUpload",
             DetailType |-> <<Title(model_type), "-Model", ToString(model_num), "Processing">>,
             Detail |-> common_detail(<<model_type, "-model", ToString(model_num)>>),
             EventBusName |-> "default"]
    IN <<main_event>> \o
       [k \in 1..(Len(MODEL_TYPES) * 3) |->
           model_event(MODEL_TYPES[((k - 1) \div 3) + 1], ((k - 1) % 3) + 1)]

BUS_REPLIES == {"ok", "raise"}

\* a variant that does not catch: the exception leaves send_events_to_eventbridge
SendEventsResult_propagate(raised) == IF raised THEN "raise" ELSE "True"

\* lines 133 and 177-181: True when the try block completes, False when it
\* raised any Exception
SendEventsResult(raised) == IF raised THEN "False" ELSE "True"

\* lines 255-259: send_events_to_eventbridge, called with bucket_name and
\* request_id in each other's position, and the warning logged on failure
send_events_to_eventbridge(i) ==
    /\ pc[i] = "publish"
    /\ UNCHANGED <<event, handler, photos, objects, date_in, date_out>>
    /\ LET f == LocalsOf(i)
           body == event[i].body
           events == BuildEvents(body.bucket_name, f.request_id, f.file_path,
                                 body.company_id, f.photo_id, f.s3_url,
                                 body.models, f.timestamp)
           \* json.dumps raises TypeError on a detail it cannot serialise
           dumped == \A k \in 1..Len(events) : JsonSerializable(events[k].Detail)
       IN \E reply \in BUS_REPLIES :
          LET result == SendEventsResult(~dumped \/ reply = "raise")
          IN /\ calls' = IF dumped
                         THEN Append(calls, [inv |-> i, svc |-> "events",
                                             req |-> events, reply |-> reply])
                         ELSE calls
             /\ bus' = IF dumped /\ reply = "ok" THEN Append(bus, events) ELSE bus
             /\ IF result \notin {"True", "False"} THEN
                    Unexpected(i, <<>>) /\ UNCHANGED frame
                ELSE
                    /\ frame' = [frame EXCEPT ![i] =
                                    [@ EXCEPT !.events_sent = (result = "True"),
                                              !.common_detail =
                                                  CommonDetail(body.bucket_name, f.request_id,
                                                               f.file_path, body.company_id,
                                                               f.photo_id, f.timestamp)]]
                    /\ logs' = logs \o
                               (IF result = "False"
                                THEN <<Log(i, "Error sending events to EventBridge"),
                                       Log(i, "Warning: EventBridge event sending failed")>>
                                ELSE <<>>)
                    /\ pc' = [pc EXCEPT ![i] = StepAfter("publish")]
                    /\ UNCHANGED <<response, outcome>>

\* lines 261-267: the success response
Respond(i) ==
    /\ pc[i] = "respond"
    /\ Return(i, create_response(200, [message |-> "Upload successful",
                                       photo_id |-> LocalsOf(i).photo_id,
                                       timestamp |-> LocalsOf(i).timestamp,
                                       company_id |-> event[i].body.company_id]))
    /\ UNCHANGED <<event, frame, handler, photos, objects, bus, calls, logs,
                   date_in, date_out>>

handle_upload(i) ==
    \/ DecodeRequest(i)
    \/ insert_photo_to_database(i)
    \/ upload_to_s3(i)
    \/ send_events_to_eventbridge(i)
    \/ Respond(i)

Next == \E i \in Invocations : handle_upload(i)

Spec == Init /\ [][Next]_vars

\* ------------------------------- convert_to_postgres_date called on its own
DATE_YEARS == {1, 999, 1000, 1968, 1969, 2023, 2024}
DATE_MONTHS == {0, 1, 2, 12, 13}
DATE_DAYS == {0, 1, 28, 29, 30, 31, 32}

Sep(c) == <<c>>

\* the texts drawn: every format, written with and without zero padding of
\* month and day, for real and impossible dates, and texts in no format
DATE_STRINGS ==
    { DigitsOf(y, 4) \o Sep("-") \o DigitsOf(m, w) \o Sep("-") \o DigitsOf(d, w) :
          y \in DATE_YEARS, m \in DATE_MONTHS, d \in DATE_DAYS, w \in {1, 2} }
    \cup
    { DigitsOf(m, w) \o Sep(c) \o DigitsOf(d, w) \o Sep(c) \o DigitsOf(y % 100, 2) :
          y \in DATE_YEARS, m \in DATE_MONTHS, d \in DATE_DAYS, w \in {1, 2}, c \in {"/", "-"} }
    \cup
    { DigitsOf(m, 2) \o Sep("/") \o DigitsOf(d, 2) \o Sep("/") \o DigitsOf(y % 100, 2)
          \o <<" ", "1", "0", ":", "3", "0", ":">> \o DigitsOf(sec, 2) \o <<".", "5">> :
          y \in DATE_YEARS, m \in DATE_MONTHS, d \in DATE_DAYS, sec \in {0, 59, 60} }
    \cup
    { <<>>, <<"g","a","r","b","a","g","e">>,
      <<"2","0","2","4","/","0","1","/","1","5">>,
      <<"0","1","/","1","5","/","2","0","2","4">>,
      <<"0","1","/","1","5","/","2","4"," ">>,
      <<"0","1","/"," ","5","/","2","4">>,
      <<"0","1","/","1","5","/","2","4"," ","1","0",":","3","0">> }

InitDate ==
    /\ HandlerInit({}, [i \in Invocations |-> NoEvent])
    /\ date_in \in DATE_STRINGS
    /\ date_out = NotCalled

ConvertDate ==
    /\ date_out = NotCalled
    /\ \E pad4 \in BOOLEAN : date_out' = convert_to_postgres_date(date_in, pad4)
    /\ UNCHANGED <<pc, event, frame, response, outcome, handler, photos, objects,
                   bus, calls, logs, date_in>>

NextDate == ConvertDate

SpecDate == InitDate /\ [][NextDate]_vars

\* ------------------------------------------------------------ the properties
Done(i) == pc[i] = "done"

Status(i) == response[i].statusCode

\* the reply the store gave to the insert of invocation i was of this kind
InsertReplied(i, kind) == \E k \in CallsOf(i, "rds") : calls[k].reply.kind = kind

\* the reply S3 gave to the put of invocation i
PutReplied(i, reply) == \E k \in CallsOf(i, "s3") : calls[k].reply = reply

NoCalls(i) == \A svc \in {"rds", "s3", "events"} : CallsOf(i, svc) = {}

GenericError == [error |-> <<"Internal server error">>]

\* C1: every run that returns 200 issued exactly one insert and exactly one
\* put, and the put's key is uploads/{identifier} for the identifier the
\* metadata store generated and returned for that insert.
C1_SuccessOneRowOneObjectAtItsKey ==
    \A i \in Invocations :
        (Done(i) /\ Status(i) = 200) =>
            /\ Cardinality(CallsOf(i, "rds")) = 1
            /\ Cardinality(CallsOf(i, "s3")) = 1
            /\ \A k \in CallsOf(i, "rds"), j \in CallsOf(i, "s3") :
                  /\ calls[k].reply.kind = "rows"
                  /\ calls[k].reply.id \in {r.id : r \in photos}
                  /\ calls[j].req.Key = <<"uploads/", ToString(calls[k].reply.id)>>

PROCESSING_TYPES ==
    {<<"upload">>} \cup {<<t, "-model", ToString(n)>> : t \in {"lambda", "eks"}, n \in 1..3}

\* C2: a run whose insert returned an identifier, whose put succeeded and
\* whose bus refused nothing hands the bus exactly seven events in exactly one
\* put_events call: the 'uploaded' event and lambda-model1..3, eks-model1..3.
C2_SuccessPublishesSevenEventsInOneBatch ==
    \A i \in Invocations :
        (/\ Done(i)
         /\ InsertReplied(i, "rows")
         /\ PutReplied(i, "ok")
         /\ \A k \in CallsOf(i, "events") : calls[k].reply = "ok") =>
            /\ Cardinality(CallsOf(i, "events")) = 1
            /\ \A k \in CallsOf(i, "events") :
                  /\ Len(calls[k].req) = 7
                  /\ {calls[k].req[n].Detail.processingType[2] : n \in 1..7} = PROCESSING_TYPES

\* C3: when the metadata store answers the insert with zero rows, the run
\* responds 500 and makes no put_object call.
C3_ZeroRowsIs500WithoutUpload ==
    \A i \in Invocations :
        (Done(i) /\ InsertReplied(i, "zero")) =>
            /\ Status(i) = 500
            /\ CallsOf(i, "s3") = {}

\* the identifier the store generated for the insert of invocation i
GeneratedId(i) == (CHOOSE k \in CallsOf(i, "rds") : calls[k].reply.kind = "rows")

\* the response of invocation i is an error whose message names identifier id
ErrorNames(i, id) ==
    /\ DOMAIN response[i].body = {"error"}
    /\ \E n \in 1..Len(response[i].body.error) : response[i].body.error[n] = ToString(id)

\* the row of identifier id is in the table and invocation i issued one
\* statement only
RowKept(i, id) ==
    /\ id \in {r.id : r \in photos}
    /\ Cardinality(CallsOf(i, "rds")) = 1

\* C4 as stated: whenever the object upload fails after the insert returned
\* an identifier, the run responds 500 with an error body that references the
\* identifier, and the row is still there with no compensating call.
C4_AnyUploadFailureNamesTheIdentifier ==
    \A i \in Invocations :
        (Done(i) /\ InsertReplied(i, "rows") /\ ~PutReplied(i, "ok") /\ CallsOf(i, "s3") # {}) =>
            LET id == calls[GeneratedId(i)].reply.id
            IN Status(i) = 500 /\ ErrorNames(i, id) /\ RowKept(i, id)

\* C4 amended: when put_object raises ClientError after the insert returned an
\* identifier, the run responds 500 with an error body that references the
\* identifier; when it raises any other exception the run responds 500 with
\* the generic body; in both cases the row is still there and the metadata
\* store got no further call.
C4_ClientErrorNamesTheIdentifier ==
    \A i \in Invocations :
        (Done(i) /\ InsertReplied(i, "rows")) =>
            LET id == calls[GeneratedId(i)].reply.id
            IN /\ PutReplied(i, "ClientError") =>
                    Status(i) = 500 /\ ErrorNames(i, id) /\ RowKept(i, id)
               /\ PutReplied(i, "OtherError") =>
                    Status(i) = 500 /\ response[i].body = GenericError /\ RowKept(i, id)

C4_Witness ==
    \E i \in Invocations :
        /\ Done(i)
        /\ InsertReplied(i, "rows")
        /\ PutReplied(i, "ClientError")
        /\ Status(i) = 500
        /\ photos # {}

\* C5: when publishing fails after the insert returned an identifier and the
\* put succeeded, the run still returns 200 and the photo_id of the response
\* is the identifier the store generated.
C5_PublishFailureStillReturns200 ==
    \A i \in Invocations :
        (Done(i) /\ InsertReplied(i, "rows") /\ PutReplied(i, "ok") /\ ~frame[i].events_sent) =>
            /\ outcome[i] = "returned"
            /\ Status(i) = 200
            /\ response[i].body.photo_id = calls[GeneratedId(i)].reply.id

C5_Witness ==
    \E i \in Invocations :
        /\ Done(i)
        /\ InsertReplied(i, "rows")
        /\ PutReplied(i, "ok")
        /\ ~frame[i].events_sent
        /\ \E n \in 1..Len(logs) : logs[n] = Log(i, "Error sending events to EventBridge")
        /\ Status(i) = 200

\* C6: a request without a body is answered 400 and no call is made to the
\* metadata store, the object store or the event bus.
C6_MissingBodyIs400WithoutCalls ==
    \A i \in Invocations :
        (Done(i) /\ event[i].kind = "no_body") =>
            /\ Status(i) = 400
            /\ NoCalls(i)
            /\ photos = {} /\ objects = {} /\ bus = <<>>

C6_Witness == \E i \in Invocations : Done(i) /\ event[i].kind = "no_body" /\ Status(i) = 400

\* the image of the request of invocation i does not decode
UndecodableImage(i) ==
    /\ event[i].kind = "body_dict"
    /\ b64decode(event[i].body.image_data_encoded).raised

\* C7: a request whose image fails base64 decoding is answered 400 and no
\* call is made to the metadata store, the object store or the event bus.
C7_UndecodableImageIs400WithoutCalls ==
    \A i \in Invocations :
        (Done(i) /\ UndecodableImage(i)) =>
            /\ Status(i) = 400
            /\ NoCalls(i)
            /\ photos = {} /\ objects = {} /\ bus = <<>>

C7_Witness ==
    \E i \in Invocations :
        /\ Done(i)
        /\ UndecodableImage(i)
        /\ event[i].body.image_data_encoded.has
        /\ Status(i) = 400

\* no format of input_formats parses the text
Unsupported(date_str) ==
    \A k \in 1..Len(input_formats) : ~Strptime(date_str, input_formats[k]).ok

\* the request of invocation i reaches the insert with a date no format parses
DateRejected(i) ==
    /\ event[i].kind = "body_dict"
    /\ ~b64decode(event[i].body.image_data_encoded).raised
    /\ event[i].body.date_taken.has
    /\ Unsupported(event[i].body.date_taken.val)

\* a fault that no step handles itself: an event or body that is not a
\* mapping, a rejected date, an error of the Data API, an exception of
\* put_object other than ClientError
UnhandledFault(i) ==
    \/ event[i].kind \in {"not_a_dict", "body_str"}
    \/ DateRejected(i)
    \/ InsertReplied(i, "raise")
    \/ PutReplied(i, "OtherError")

\* C8: handle_upload never raises: every finished run returned a response of
\* status 200, 400 or 500, and a fault no step handles yields 500 with the
\* generic error body and nothing else in it.
C8_NeverRaisesGeneric500 ==
    \A i \in Invocations :
        Done(i) =>
            /\ outcome[i] = "returned"
            /\ Status(i) \in {200, 400, 500}
            /\ UnhandledFault(i) =>
                  /\ Status(i) = 500
                  /\ response[i].body = GenericError
                  /\ DOMAIN response[i].body = {"error"}

C8_Witness ==
    \E i \in Invocations :
        /\ Done(i)
        /\ InsertReplied(i, "rows")
        /\ PutReplied(i, "OtherError")
        /\ frame[i].photo_id # None
        /\ response[i].body = GenericError

\* C9: a request whose capture date is in none of the four formats is
\* answered 500 with no insert issued, no row written, no object uploaded and
\* no event published; a request without a capture date skips the
\* normalization and its insert is issued with no date.
C9_RejectedDateAbortsInsert ==
    \A i \in Invocations :
        /\ (Done(i) /\ DateRejected(i)) =>
              /\ Status(i) = 500
              /\ NoCalls(i)
              /\ photos = {} /\ objects = {} /\ bus = <<>>
        /\ (/\ event[i].kind = "body_dict"
            /\ ~event[i].body.date_taken.has
            /\ pc[i] \in {"upload", "publish", "respond"}) =>
              /\ Cardinality(CallsOf(i, "rds")) = 1
              /\ \A k \in CallsOf(i, "rds") : calls[k].req.date_taken = Absent

C9_Witness ==
    \E i \in Invocations :
        /\ Done(i)
        /\ DateRejected(i)
        /\ event[i].body.date_taken.val # <<>>
        /\ Status(i) = 500

\* the text of a date in YYYY-MM-DD form
IsoDate(y, m, d) == DigitsOf(y, 4) \o <<"-">> \o DigitsOf(m, 2) \o <<"-">> \o DigitsOf(d, 2)

\* C10: convert_to_postgres_date tries the four formats in order and the
\* first that parses wins: a text in one of the formats is returned as the
\* same calendar date in YYYY-MM-DD form (2024-01-15 -> 2024-01-15,
\* 01/15/24 -> 2024-01-15) and a text in no format raises.
C10_EveryFormatYieldsIsoDate ==
    (date_out # NotCalled) =>
        IF Unsupported(date_in) THEN date_out.raised
        ELSE LET k == CHOOSE n \in 1..Len(input_formats) :
                          /\ Strptime(date_in, input_formats[n]).ok
                          /\ \A j \in 1..(n - 1) : ~Strptime(date_in, input_formats[j]).ok
                 dt == Strptime(date_in, input_formats[k])
             IN /\ ~date_out.raised
                /\ date_out.val = IsoDate(dt.Y, dt.m, dt.d)
                /\ Len(date_out.val) = 10

\* ------------------------------------- two invocations on the same handler
\* The requests drawn for two invocations that run interleaved: with and
\* without a model list, for two companies, with an image that decodes and
\* one that does not, with no date and with a date in no format.
PAIR_BODIES == [models : MODEL_LISTS, bucket_name : BUCKETS, user_id : {1},
                company_id : COMPANY_IDS,
                date_taken : {Absent, Some(<<"g","a","r","b","a","g","e">>)},
                image_data_encoded : {Some(<<>>), Some(<<"A">>)}]

PAIR_EVENTS == {NoEvent} \cup { [kind |-> "body_dict", body |-> b] : b \in PAIR_BODIES }

InitPair ==
    /\ \E ev1 \in PAIR_EVENTS, ev2 \in PAIR_EVENTS :
          HandlerInit({1, 2}, [i \in Invocations |-> IF i = 1 THEN ev1
                                                     ELSE IF i = 2 THEN ev2 ELSE NoEvent])
    /\ date_in = <<>>
    /\ date_out = NotCalled

SpecPair == InitPair /\ [][Next]_vars

\* the replies invocation i got, by collaborator
RepliesOf(i) ==
    {<<"rds", calls[k].reply.kind>> : k \in CallsOf(i, "rds")}
        \cup {<<"s3", calls[k].reply>> : k \in CallsOf(i, "s3")}
        \cup {<<"events", calls[k].reply>> : k \in CallsOf(i, "events")}

\* the processing types of the events invocation i handed to the bus
HandedTypes(i) ==
    UNION { {calls[k].req[n].Detail.processingType[2] : n \in 1..Len(calls[k].req)} :
              k \in CallsOf(i, "events") }

\* the DetailType of the events invocation i handed to the bus
HandedDetailTypes(i) ==
    UNION { {calls[k].req[n].DetailType : n \in 1..Len(calls[k].req)} :
              k \in CallsOf(i, "events") }

\* the two requests are the same but for their models field
DifferOnlyInModels(i, j) ==
    /\ event[i].kind = "body_dict"
    /\ event[j].kind = "body_dict"
    /\ event[i].body.models # event[j].body.models
    /\ [event[i].body EXCEPT !.models = <<>>] = [event[j].body EXCEPT !.models = <<>>]

\* C11: two requests that differ only in their models field, given the same
\* replies, get the same response status and hand the bus the same event
\* types and processing types, which are always the fixed fan-out: the
\* 'uploaded' event and two families times three variants.
C11_EventsIndependentOfModels ==
    \A i \in Invocations, j \in Invocations :
        (/\ Done(i) /\ Done(j)
         /\ DifferOnlyInModels(i, j)
         /\ RepliesOf(i) = RepliesOf(j)) =>
            /\ Status(i) = Status(j)
            /\ HandedDetailTypes(i) = HandedDetailTypes(j)
            /\ HandedTypes(i) = HandedTypes(j)
            /\ (PutReplied(i, "ok") /\ InsertReplied(i, "rows")) => HandedTypes(i) = PROCESSING_TYPES

\* the calls of a run are in the order insert, put, publish
CallsInOrder(i) ==
    /\ \A k \in CallsOf(i, "rds") : frame[i].timestamp # ""
    /\ \A k \in CallsOf(i, "s3") : \E r \in CallsOf(i, "rds") : r < k
    /\ \A k \in CallsOf(i, "events") :
          \E p \in CallsOf(i, "s3") : p < k /\ calls[p].reply = "ok"
    /\ outcome[i] = "pending" \/ pc[i] = "done"

\* a run that has produced its response makes no further call
NoCallAfterResponse(i) ==
    outcome[i] # "pending" =>
        \A svc \in {"rds", "s3", "events"} : Cardinality(CallsOf(i, svc))' = Cardinality(CallsOf(i, svc))

\* C12: in every run the calls happen in the order decode, insert, upload,
\* publish, respond: no put before the insert has returned, no put_events
\* unless the put of the same run succeeded, and no call after the response.
C12_StrictOrderOfCalls ==
    /\ [](\A i \in Invocations : CallsInOrder(i))
    /\ [][\A i \in Invocations : NoCallAfterResponse(i)]_vars

C12_Witness ==
    \E i \in Invocations :
        /\ Done(i)
        /\ Status(i) = 200
        /\ \E r \in CallsOf(i, "rds"), p \in CallsOf(i, "s3") : r < p /\ calls[p].reply = "ok"

\* C13: the correlation envelope of the events of a run carries the run's own
\* fields (bucket is the request's bucket_name, key is uploads/{identifier},
\* company id and identifier are the request's company_id and the identifier
\* the insert returned, the correlation id is the request id generated for
\* the run) and every event handed to the bus carries that same envelope.
C13_EventsCarryOwnCorrelationFields ==
    \A i \in Invocations :
        (frame[i].common_detail # [unset |-> TRUE] /\ InsertReplied(i, "rows")) =>
            LET cd == frame[i].common_detail
                id == calls[GeneratedId(i)].reply.id
            IN /\ cd.bucket = PyStrV(event[i].body.bucket_name)
               /\ cd.key = PyStrV(<<"uploads/", ToString(id)>>)
               /\ cd.company_id = PyInt(event[i].body.company_id)
               /\ cd.photo_id = PyInt(id)
               /\ cd.request_id = PyStrV(frame[i].request_id)
               /\ \A k \in CallsOf(i, "events") : \A n \in 1..Len(calls[k].req) :
                     \A fld \in DOMAIN cd : calls[k].req[n].Detail[fld] = cd[fld]

\* C14: whatever fails, a run issues at most one insert statement, at most
\* one put and at most one batched publish; no failed call is issued again.
C14_AtMostOneCallPerCollaborator ==
    \A i \in Invocations :
        \A svc \in {"rds", "s3", "events"} : Cardinality(CallsOf(i, svc)) <= 1

C14_Witness ==
    \E i \in Invocations :
        /\ Done(i)
        /\ PutReplied(i, "ClientError")
        /\ Cardinality(CallsOf(i, "s3")) = 1
        /\ Cardinality(CallsOf(i, "rds")) = 1

\* the identifier the insert of invocation i returned, None when it had no row
OwnId(i) == calls[CHOOSE k \in CallsOf(i, "rds") : TRUE].reply.id

\* the status a run must have, from its own request and its own replies
OwnStatus(i) ==
    IF event[i].kind = "no_body" THEN 400
    ELSE IF event[i].kind # "body_dict" THEN 500
    ELSE IF UndecodableImage(i) THEN 400
    ELSE IF DateRejected(i) \/ InsertReplied(i, "raise") THEN 500
    ELSE IF PutReplied(i, "ClientError") \/ PutReplied(i, "OtherError") THEN 500
    ELSE 200

\* C15: the shared handler holds no request-scoped data: its fields are never
\* written, and in any interleaving of two invocations the response, the
\* storage key and the event contents of each depend only on its own request
\* and on the replies to its own calls.
C15_NoCrossInvocationLeak ==
    /\ handler = NewHandler
    /\ \A i \in Invocations :
          /\ \A k \in CallsOf(i, "s3") :
                /\ calls[k].req.Key = <<"uploads/", PyStr(OwnId(i))>>
                /\ calls[k].req.Bucket = event[i].body.bucket_name
                /\ calls[k].req.Body = b64decode(event[i].body.image_data_encoded).val
          /\ Done(i) =>
                /\ Status(i) = OwnStatus(i)
                /\ Status(i) = 200 =>
                      /\ response[i].body.photo_id = OwnId(i)
                      /\ response[i].body.company_id = event[i].body.company_id
                      /\ response[i].body.timestamp = frame[i].timestamp
                /\ (Status(i) = 500 /\ PutReplied(i, "ClientError")) =>
                      response[i].body.error[2] = PyStr(OwnId(i))
          /\ frame[i].common_detail # [unset |-> TRUE] =>
                /\ frame[i].common_detail.photo_id = PyOptInt(OwnId(i))
                /\ frame[i].common_detail.company_id = PyInt(event[i].body.company_id)
                /\ frame[i].common_detail.key = PyStrV(<<"uploads/", PyStr(OwnId(i))>>)

C15_Witness ==
    /\ Done(1) /\ Done(2)
    /\ Status(1) = 200 /\ Status(2) = 200
    /\ event[1].body.company_id # event[2].body.company_id
    /\ response[1].body.photo_id # response[2].body.photo_id
    /\ response[1].body.photo_id # None /\ response[2].body.photo_id # None
    /\ calls[1].inv # calls[2].inv

====
